---------------------------- MODULE Spec2Model ----------------------------
(***************************************************************************)
(* Model of video_batch_compare.py (class VideoComparator): the            *)
(* bidirectional comparison engine.  The GUI thread (start / stop / file   *)
(* list edits), one scheduler thread per run (run_comparisons), the        *)
(* ThreadPoolExecutor of each run and the row pipeline (compare_row and    *)
(* the functions it calls) are interleaved at the granularity of the       *)
(* reads of the shared state (stop_event, left_files, right_files,         *)
(* current_metric) and of the blocking calls (readline, as_completed,      *)
(* executor shutdown).                                                     *)
(*                                                                         *)
(* Scores are Python floats in the program.  Here a score is an integer    *)
(* number of thousandths (95.0 is 95000, 0.01 is 10), which represents     *)
(* every threshold of the program exactly.  An optional value (a score or  *)
(* Python's None) is a sequence of length at most one: <<>> is None and    *)
(* <<v>> is the value v.                                                   *)
(*                                                                         *)
(* Row indices are 1-based: row i of the model is row_idx = i - 1 of the   *)
(* program and "row_{i-1}" is the key i of results.                        *)
(***************************************************************************)
EXTENDS Integers, Sequences, FiniteSets, TLC

(***************************************************************************)
(* Bounds of the model.                                                    *)
(***************************************************************************)
MaxFiles == 2        \* files per panel when the first run starts
MaxWorkers == 2      \* largest max_workers (os.cpu_count() - 4) considered
MaxRuns == 2         \* start requests accepted in one behaviour
MaxTasks == 2        \* row tasks created in one behaviour, all runs together
MaxEdits == 1        \* file list edits and metric selections in one behaviour
MaxFrame == 3        \* largest frame counter a subprocess prints
MaxTokens == 3       \* tokens in a text handed to a parser

(***************************************************************************)
(* Program constants, in thousandths.                                      *)
(***************************************************************************)
vmaf_win_threshold == 2000
ssim_win_threshold == 10
psnr_win_threshold == 2000
AudioTieBand == 1000
LoudnessTieBand == 1000

None == << >>
Some(v) == << v >>
Val(o) == o[1]
Abs(x) == IF x < 0 THEN 0 - x ELSE x
Min(a, b) == IF a < b THEN a ELSE b
Max(a, b) == IF a > b THEN a ELSE b

Metrics == {"VMAF", "SSIM"}

(***************************************************************************)
(* The dict every stage returns when it is cancelled, fails or has no      *)
(* score: {"winner": "tie", "left_score": 0, "right_score": 0}.            *)
(***************************************************************************)
TieZero == [winner |-> "tie", left_score |-> 0, right_score |-> 0]

\* A decision that compares the signed difference with the band.
DecideSigned(left_quality, right_quality, band) ==
    IF left_quality - right_quality < band THEN "tie"
    ELSE IF left_quality > right_quality THEN "left"
    ELSE "right"

(***************************************************************************)
(* The three-way decision shared by the winner functions: tie when the     *)
(* absolute difference is strictly below the band, otherwise the higher.   *)
(***************************************************************************)
Decide(left_quality, right_quality, band) ==
    IF Abs(left_quality - right_quality) < band THEN "tie"
    ELSE IF left_quality > right_quality THEN "left"
    ELSE "right"

\* determine_video_winner that leaves the winner open when neither direction
\* gave a score.
determine_video_winner_open(left_as_ref_score, right_as_ref_score, metric) ==
    IF left_as_ref_score = None /\ right_as_ref_score = None
    THEN [winner |-> "-", left_score |-> 0, right_score |-> 0]
    ELSE IF left_as_ref_score = None \/ right_as_ref_score = None
    THEN TieZero
    ELSE LET lq == Val(left_as_ref_score)
             rq == Val(right_as_ref_score)
             thr == IF metric = "VMAF" THEN vmaf_win_threshold
                    ELSE ssim_win_threshold
         IN [winner |-> Decide(lq, rq, thr),
             left_score |-> lq, right_score |-> rq]

\* determine_video_winner with the tie band made inclusive (<=).
determine_video_winner_incl(left_as_ref_score, right_as_ref_score, metric) ==
    IF left_as_ref_score = None \/ right_as_ref_score = None THEN TieZero
    ELSE LET lq == Val(left_as_ref_score)
             rq == Val(right_as_ref_score)
             thr == IF metric = "VMAF" THEN vmaf_win_threshold
                    ELSE ssim_win_threshold
         IN [winner |-> IF Abs(lq - rq) <= thr THEN "tie"
                        ELSE IF lq > rq THEN "left" ELSE "right",
             left_score |-> lq, right_score |-> rq]

(***************************************************************************)
(* determine_video_winner: left_quality is left_as_ref_score and           *)
(* right_quality is right_as_ref_score, for both metrics.                  *)
(***************************************************************************)
determine_video_winner(left_as_ref_score, right_as_ref_score, metric) ==
    IF left_as_ref_score = None \/ right_as_ref_score = None THEN TieZero
    ELSE LET left_quality == Val(left_as_ref_score)
             right_quality == Val(right_as_ref_score)
             thr == IF metric = "VMAF" THEN vmaf_win_threshold
                    ELSE ssim_win_threshold
         IN [winner |-> Decide(left_quality, right_quality, thr),
             left_score |-> left_quality, right_score |-> right_quality]

\* psnr_decision with the display threshold psnr_win_threshold as the band.
psnr_decision_display(left_as_ref_score, right_as_ref_score) ==
    LET left_quality == Val(left_as_ref_score)
        right_quality == Val(right_as_ref_score)
    IN [winner |-> Decide(left_quality, right_quality, psnr_win_threshold),
        left_score |-> left_quality, right_score |-> right_quality]

(***************************************************************************)
(* determine_audio_winner when both PSNR scores are available (the other   *)
(* case calls run_audio_analysis_fallback, which runs subprocesses).       *)
(***************************************************************************)
psnr_decision(left_as_ref_score, right_as_ref_score) ==
    LET left_quality == Val(left_as_ref_score)
        right_quality == Val(right_as_ref_score)
    IN [winner |-> Decide(left_quality, right_quality, AudioTieBand),
        left_score |-> left_quality, right_score |-> right_quality]

(***************************************************************************)
(* The end of run_audio_analysis_fallback, once both loudness              *)
(* measurements have returned and no stop was seen.                        *)
(***************************************************************************)
loudness_decision(left_loudness, right_loudness) ==
    IF left_loudness = None \/ right_loudness = None THEN TieZero
    ELSE LET l == Val(left_loudness)
             r == Val(right_loudness)
             first == IF l > r THEN "left" ELSE "right"
         IN [winner |-> IF Abs(l - r) < LoudnessTieBand THEN "tie" ELSE first,
             left_score |-> l, right_score |-> r]


(***************************************************************************)
(* Score values the metric subprocesses may report.  The sets used by the  *)
(* concurrent specification are small; the sets of the single-row          *)
(* specification hold the values around every tie band.                    *)
(***************************************************************************)
RunVideoScores == {95000}
RunAudioScores == {40000}
RunLoudScores == {0 - 23000}
RowVideoScores == {94990, 95000, 95005, 95010, 96500, 97000, 98000}
RowAudioScores == {37500, 39000, 39500, 40000, 42000}
RowLoudScores == {0 - 24000, 0 - 23500, 0 - 23000, 0 - 20000}

Opt(S) == {None} \cup {Some(v) : v \in S}

\* The values get_total_frames returns (None when ffprobe's output is not a
\* number): in a run, and where the progress estimate is looked at.
RunFrameCounts == {None}
LiveFrameCounts == Opt(0 .. MaxFrame - 1)

(***************************************************************************)
(* State.                                                                  *)
(*   left_files, right_files, results, running, stop_event,                *)
(*   current_metric, max_workers: the fields of VideoComparator.           *)
(*   nruns: the number of scheduler threads started so far; run r is the   *)
(*          r-th thread started by start_comparison.                       *)
(*   sched[r]: the position and locals of run r's run_comparisons.         *)
(*   rows[r][i]: the task compare_row(i-1, left, right) of run r: its      *)
(*          position, its locals and the subprocess it is waiting for.     *)
(*   edits: the number of list edits and metric selections made so far.    *)
(*   hist[r]: history of run r, read by the properties only:               *)
(*          stopReq         stop_comparison set stop_event during run r    *)
(*          completeAtStop  the rows that had returned a complete result   *)
(*                          when it did                                    *)
(*          stored          the rows whose result run r's scheduler has    *)
(*                          written to results                             *)
(*          terminal        the terminal status run r has logged           *)
(*          used            the files on the command lines run r spawned   *)
(*          nleft, nright   the lengths of the lists when run r built its  *)
(*                          tasks; excluded: the files past the shorter    *)
(*                          length                                         *)
(*          raised          the rows in which an exception was raised      *)
(*          metric_at_start, left_at_start, right_at_start                 *)
(*                          current_metric, left_files and right_files     *)
(*                          when start_comparison started run r            *)
(*   parse: a text handed to parse_single_vmaf_output or to                *)
(*          parse_single_audio_output, and the value returned for it.      *)
(***************************************************************************)
VARIABLES left_files, right_files, results, running, stop_event,
          current_metric, max_workers, parse, nruns, edits, sched, rows, hist

vars == << left_files, right_files, results, running, stop_event,
           current_metric, max_workers,parse, nruns, edits, sched, rows, hist >>

Runs == 1 .. MaxRuns

LeftFile(i) == << "L", i >>
RightFile(i) == << "R", i >>

NoResults == [i \in {} |-> TieZero]

(***************************************************************************)
(* A task that has not been handed to the executor, and the locals of a    *)
(* compare_row call before it assigns them.                                *)
(***************************************************************************)
\* How the invocation that has just returned ended, kept until its caller
\* has made its next stop check: cancelled (the stop check fired), raised
\* (an exception was caught by the invocation's except clause) or exited
\* (the subprocess ended on its own with exit code rc and captured text; text
\* is the score its first matching pattern holds, None if none matches).
\* error is the text of the ERROR entry the invocation put on log_queue.
\* signals are the signals a cancelled invocation sent to its subprocess and
\* exited tells whether the subprocess exited within the grace period.
\* level is the highest severity among the entries the invocation put on
\* log_queue about its outcome ("-" when it put none).
NoOutcome ==
    [kind |-> "-", rc |-> 0, text |-> None, error |-> None,
     signals |-> << >>, exited |-> FALSE, level |-> "-"]
Cancelled == [NoOutcome EXCEPT !.kind = "cancelled"]
Raised == [NoOutcome EXCEPT !.kind = "raised"]
ExitCodes == {0, 1}

\* calls counts the Popen calls made for each slot; psnr_failed is the
\* number of arguments of determine_audio_winner that were None (the
\* arguments stay in the frame of run_audio_comparison while the fallback
\* runs).  progress holds, for each bar of the row, the value of the last
\* event the row has put on progress_queue; probes counts the calls of
\* get_total_frames; total_frames is the local of
\* run_single_video_comparison; frame is the frame counter the running
\* subprocess has last printed.
Slots == {"v1", "v2", "a1", "a2", "l1", "l2"}

NoProgress == [video |-> None, audio |-> None]

NewRow ==
    [pc |-> "new", slot |-> "-", metric |-> "-", s1 |-> None, s2 |-> None,
     vres |-> TieZero, ares |-> TieZero, apath |-> "-", proc |-> "none",
     ff |-> << >>, ret |-> None,
     calls |-> [s \in Slots |-> 0], psnr_failed |-> 0,
     last |-> NoOutcome,
     progress |-> NoProgress, probes |-> 0, total_frames |-> 0, frame |-> 0]

IdleSched == [pc |-> "idle", tasks |-> << >>, k |-> 1, yielded |-> {}]

NoHist ==
    [stopReq |-> FALSE, completeAtStop |-> {}, stored |-> {},
     terminal |-> "none", used |-> {}, excluded |-> {},
     nleft |-> 0, nright |-> 0, raised |-> {},
     metric_at_start |-> "-", left_at_start |-> << >>,
     right_at_start |-> << >>]

(***************************************************************************)
(* The parsers of the captured text.  A text is a sequence of tokens, in   *)
(* the order they occur; a token is one place of the text where a number   *)
(* stands, with what stands before and after the number (form) and the     *)
(* characters the class [0-9.]+ takes there (num):                         *)
(*   "VMAF score:"  "VMAF score: <num>", as libvmaf prints its score       *)
(*   "VMAF"         "VMAF" followed on its line by other text and <num>    *)
(*   "PSNR ch0:"    "PSNR ch0: <num> dB", as apsnr prints its score        *)
(*   "dB"           "<num> dB" elsewhere                                   *)
(*   "-"            a number that none of the patterns reaches             *)
(* The characters taken are a numeral or any other run of digits and dots, *)
(* such as a version number or a numeral followed by a full stop.          *)
(***************************************************************************)
DigitValue(c) ==
    CASE c = "0" -> 0 [] c = "2" -> 2 [] c = "3" -> 3 [] c = "4" -> 4
      [] c = "5" -> 5 [] c = "9" -> 9

RECURSIVE NatOf(_)
NatOf(digits) ==
    IF digits = << >> THEN 0
    ELSE NatOf(SubSeq(digits, 1, Len(digits) - 1)) * 10
         + DigitValue(digits[Len(digits)])

RECURSIVE Pow10(_)
Pow10(n) == IF n = 0 THEN 1 ELSE 10 * Pow10(n - 1)

\* float(text) for a text of digits and dots, in thousandths; None stands
\* for the ValueError float raises (more than one dot, or no digit), which
\* the except clause of the parser turns into None (lines 1155-1157,
\* 1220-1222).
float(text) ==
    LET dots == { k \in DOMAIN text : text[k] = "." } IN
    IF Cardinality(dots) > 1 \/ Cardinality(dots) = Len(text) THEN None
    ELSE IF dots = {} THEN Some(NatOf(text) * 1000)
    ELSE LET d == CHOOSE k \in dots : TRUE
             frac == SubSeq(text, d + 1, Len(text))
         IN Some(NatOf(SubSeq(text, 1, d - 1)) * 1000
                 + NatOf(frac) * Pow10(3 - Len(frac)))

Numerals == { << "9", "5", ".", "5" >>, << "4", "0" >> }
Captures == Numerals \cup { << "2", ".", "3", ".", "0" >> }

VmafTokens == [form : {"VMAF score:", "VMAF", "-"}, num : Captures]

AudioTokens == [form : {"PSNR ch0:", "dB", "-"}, num : Captures]

\* re.search and re.findall: the captures of the tokens a pattern matches,
\* in the order of the text.
Matches(output, forms) ==
    LET Hit(t) == t.form \in forms
        hits == SelectSeq(output, Hit)
    IN [k \in DOMAIN hits |-> hits[k].num]

\* A parser that takes the last number that follows "VMAF", whatever the
\* form.
parse_single_vmaf_output_last(output) ==
    LET vmaf_matches == Matches(output, {"VMAF score:", "VMAF"}) IN
    IF vmaf_matches # << >> THEN float(vmaf_matches[Len(vmaf_matches)])
    ELSE None

\* parse_single_vmaf_output, lines 1135-1157: r'VMAF score:\s*([0-9.]+)'
\* first; r'VMAF.*?([0-9.]+)' matches both forms.
parse_single_vmaf_output(output) ==
    LET vmaf_match == Matches(output, {"VMAF score:"})
        vmaf_matches == Matches(output, {"VMAF score:", "VMAF"})
    IN IF vmaf_match # << >> THEN float(vmaf_match[1])
       ELSE IF vmaf_matches # << >>
       THEN float(vmaf_matches[Len(vmaf_matches)])
       ELSE None

\* parse_single_audio_output, lines 1203-1222: r'PSNR\s+ch0:\s*([0-9.]+)'
\* first; r'([0-9.]+)\s*dB' matches both forms.
parse_single_audio_output(output) ==
    LET psnr_match == Matches(output, {"PSNR ch0:"})
        psnr_matches == Matches(output, {"PSNR ch0:", "dB"})
    IN IF psnr_match # << >> THEN float(psnr_match[1])
       ELSE IF psnr_matches # << >>
       THEN float(psnr_matches[Len(psnr_matches)])
       ELSE None

NoParse == [parser |-> "-", output |-> << >>, pc |-> "-", score |-> None]

(***************************************************************************)
(* __init__ (lines 35-49) followed by the file dialogs of add_files: the   *)
(* panels hold between one and MaxFiles distinct files each.               *)
(***************************************************************************)
Init ==
    /\ \E nl \in 1 .. MaxFiles : left_files = [i \in 1 .. nl |-> LeftFile(i)]
    /\ \E nr \in 1 .. MaxFiles : right_files = [i \in 1 .. nr |-> RightFile(i)]
    /\ results = NoResults
    /\ running = FALSE
    /\ stop_event = FALSE
    /\ current_metric = "VMAF"
    /\ max_workers \in 1 .. MaxWorkers
    /\ parse = NoParse
    /\ nruns = 0
    /\ edits = 0
    /\ sched = [r \in Runs |-> IdleSched]
    /\ rows = [r \in Runs |-> << >>]
    /\ hist = [r \in Runs |-> NoHist]

(***************************************************************************)
(* GUI thread.  Tk runs one handler at a time, so a handler is one step.   *)
(***************************************************************************)

(***************************************************************************)
(* The guard of start_comparison: lines 601-606.                           *)
(***************************************************************************)
StartGuard == ~running /\ left_files # << >> /\ right_files # << >>

\* The row tasks of the runs started so far: those a run has created, or
\* those it would create from the lists as they are.
RECURSIVE TasksUpTo(_)
TasksUpTo(r) ==
    IF r = 0 THEN 0
    ELSE TasksUpTo(r - 1) +
         (IF sched[r].pc = "build"
          THEN Min(Len(left_files), Len(right_files))
          ELSE Len(sched[r].tasks))

start_comparison ==
    /\ StartGuard
    /\ nruns < MaxRuns
    /\ TasksUpTo(nruns) + Min(Len(left_files), Len(right_files)) <= MaxTasks
    /\ results' = NoResults
    /\ running' = TRUE
    /\ stop_event' = FALSE
    /\ nruns' = nruns + 1
    /\ sched' = [sched EXCEPT ![nruns + 1].pc = "build"]
    /\ hist' = [hist EXCEPT ![nruns + 1].metric_at_start = current_metric,
                            ![nruns + 1].left_at_start = left_files,
                            ![nruns + 1].right_at_start = right_files]
    /\ UNCHANGED << left_files, right_files, current_metric, max_workers,parse,
                    edits, rows >>

(***************************************************************************)
(* The rows of run r whose compare_row has returned a complete result.     *)
(***************************************************************************)
Completed(r) ==
    { i \in DOMAIN rows[r] : rows[r][i].pc = "done" /\ rows[r][i].ret # None }

stop_comparison ==
    /\ running
    /\ stop_event' = TRUE
    /\ running' = FALSE
    /\ hist' = [hist EXCEPT ![nruns].stopReq = TRUE,
                            ![nruns].completeAtStop = Completed(nruns)]
    /\ UNCHANGED << left_files, right_files, results, current_metric,
                    max_workers,parse, nruns, edits, sched, rows >>

Move(list, old, new) ==
    LET item == list[old]
        rest == [j \in 1 .. Len(list) - 1 |->
                    IF j < old THEN list[j] ELSE list[j + 1]]
    IN [j \in 1 .. Len(list) |->
            IF j < new THEN rest[j]
            ELSE IF j = new THEN item
            ELSE rest[j - 1]]

reorder_files ==
    \E panel \in {"left", "right"} :
      LET file_list == IF panel = "left" THEN left_files ELSE right_files IN
      \E old \in DOMAIN file_list, new \in DOMAIN file_list :
        /\ edits < MaxEdits
        /\ old # new
        /\ left_files' = IF panel = "left" THEN Move(file_list, old, new)
                         ELSE left_files
        /\ right_files' = IF panel = "right" THEN Move(file_list, old, new)
                          ELSE right_files
        /\ results' = NoResults
        /\ edits' = edits + 1
        /\ UNCHANGED << running, stop_event, current_metric, max_workers,parse,
                        nruns, sched, rows, hist >>

Pop(list, index) ==
    [j \in 1 .. Len(list) - 1 |-> IF j < index THEN list[j] ELSE list[j + 1]]

remove_selected_file ==
    \E panel \in {"left", "right"} :
      LET file_list == IF panel = "left" THEN left_files ELSE right_files IN
      \E index \in DOMAIN file_list :
        /\ edits < MaxEdits
        /\ left_files' = IF panel = "left" THEN Pop(file_list, index)
                         ELSE left_files
        /\ right_files' = IF panel = "right" THEN Pop(file_list, index)
                          ELSE right_files
        /\ results' = NoResults
        /\ edits' = edits + 1
        /\ UNCHANGED << running, stop_event, current_metric, max_workers,parse,
                        nruns, sched, rows, hist >>

clear_all_files ==
    /\ edits < MaxEdits
    /\ ~(left_files = << >> /\ right_files = << >>)
    /\ left_files' = << >>
    /\ right_files' = << >>
    /\ results' = NoResults
    /\ edits' = edits + 1
    /\ UNCHANGED << running, stop_event, current_metric, max_workers,parse,
                    nruns, sched, rows, hist >>

select_metric ==
    \E m \in Metrics :
        /\ edits < MaxEdits
        /\ m # current_metric
        /\ current_metric' = m
        /\ edits' = edits + 1
        /\ UNCHANGED << left_files, right_files, results, running, stop_event,
                        max_workers,parse, nruns, sched, rows, hist >>


(***************************************************************************)
(* Scheduler thread of run r: run_comparisons.                             *)
(***************************************************************************)

\* Lines 640-648: min_count, the task list and the executor of the run.
SchedBuild(r) ==
    /\ sched[r].pc = "build"
    /\ LET min_count == Min(Len(left_files), Len(right_files))
           tasks == [i \in 1 .. min_count |->
                        [left |-> left_files[i], right |-> right_files[i]]]
       IN /\ sched' = [sched EXCEPT ![r].tasks = tasks,
                                    ![r].pc = IF min_count = 0 THEN "collect"
                                              ELSE "submit"]
          /\ rows' = [rows EXCEPT ![r] = [i \in 1 .. min_count |-> NewRow]]
          /\ hist' = [hist EXCEPT
                        ![r].nleft = Len(left_files),
                        ![r].nright = Len(right_files),
                        ![r].excluded =
                        { left_files[j] : j \in min_count + 1 .. Len(left_files) }
                        \cup
                        { right_files[j] : j \in min_count + 1 .. Len(right_files) }]
    /\ UNCHANGED << left_files, right_files, results, running, stop_event,
                    current_metric, max_workers,parse, nruns, edits >>

\* Lines 651-656: one turn of the submit loop.
SchedSubmit(r) ==
    /\ sched[r].pc = "submit"
    /\ IF stop_event
       THEN /\ sched' = [sched EXCEPT ![r].pc = "collect"]
            /\ UNCHANGED rows
       ELSE /\ rows' = [rows EXCEPT ![r][sched[r].k].pc = "queued"]
            /\ sched' = [sched EXCEPT
                            ![r].k = @ + 1,
                            ![r].pc = IF sched[r].k = Len(sched[r].tasks)
                                      THEN "collect" ELSE "submit"]
    /\ UNCHANGED << left_files, right_files, results, running, stop_event,
                    current_metric, max_workers,parse, nruns, edits, hist >>

\* The futures of future_to_row: the tasks submitted so far.
Submitted(r) == 1 .. sched[r].k - 1

\* A harvest loop that gives up at the first row whose video stage had no
\* score (left_score and right_score 0).
SchedCollectFailFast(r) ==
    /\ sched[r].pc = "collect"
    /\ sched[r].yielded # Submitted(r)
    /\ \E i \in Submitted(r) \ sched[r].yielded :
        /\ rows[r][i].pc = "done"
        /\ IF stop_event
           THEN /\ sched' = [sched EXCEPT ![r].pc = "shutdown"]
                /\ UNCHANGED << results, hist >>
           ELSE IF rows[r][i].ret # None
                   /\ Val(rows[r][i].ret).video_score_left = 0
                   /\ Val(rows[r][i].ret).video_score_right = 0
           THEN /\ sched' = [sched EXCEPT ![r].pc = "shutdown",
                                          ![r].yielded = @ \cup {i}]
                /\ UNCHANGED << results, hist >>
           ELSE /\ sched' = [sched EXCEPT ![r].yielded = @ \cup {i}]
                /\ IF rows[r][i].ret # None
                   THEN /\ results' = (i :> [run |-> r,
                                              res |-> Val(rows[r][i].ret),
                                              display |-> current_metric])
                                      @@ results
                        /\ hist' = [hist EXCEPT ![r].stored = @ \cup {i}]
                   ELSE UNCHANGED << results, hist >>
    /\ UNCHANGED << left_files, right_files, running, stop_event,
                    current_metric, max_workers,parse, nruns, edits, rows >>

\* Lines 659-681: as_completed hands over a finished future; the loop body
\* breaks on stop_event, otherwise stores a result that is not None.
SchedCollect(r) ==
    /\ sched[r].pc = "collect"
    /\ sched[r].yielded # Submitted(r)
    /\ \E i \in Submitted(r) \ sched[r].yielded :
        /\ rows[r][i].pc = "done"
        /\ IF stop_event
           THEN /\ sched' = [sched EXCEPT ![r].pc = "shutdown"]
                /\ UNCHANGED << results, hist >>
           ELSE /\ sched' = [sched EXCEPT ![r].yielded = @ \cup {i}]
                /\ IF rows[r][i].ret # None
                   THEN /\ results' = (i :> [run |-> r,
                                              res |-> Val(rows[r][i].ret),
                                              display |-> current_metric])
                                      @@ results
                        /\ hist' = [hist EXCEPT ![r].stored = @ \cup {i}]
                   ELSE UNCHANGED << results, hist >>
    /\ UNCHANGED << left_files, right_files, running, stop_event,
                    current_metric, max_workers,parse, nruns, edits, rows >>

\* as_completed has handed over every future: the loop ends.
SchedCollectEnd(r) ==
    /\ sched[r].pc = "collect"
    /\ sched[r].yielded = Submitted(r)
    /\ sched' = [sched EXCEPT ![r].pc = "shutdown"]
    /\ UNCHANGED << left_files, right_files, results, running, stop_event,
                    current_metric, max_workers,parse, nruns, edits, rows, hist >>

\* A scheduler that leaves the executor without waiting for its tasks
\* (shutdown(wait=False)).
SchedFinishNoWait(r) ==
    /\ sched[r].pc = "shutdown"
    /\ running' = FALSE
    /\ hist' = [hist EXCEPT ![r].terminal = IF stop_event THEN "stopped"
                                            ELSE "completed"]
    /\ sched' = [sched EXCEPT ![r].pc = "done"]
    /\ UNCHANGED << left_files, right_files, results, stop_event,
                    current_metric, max_workers,parse, nruns, edits, rows >>

\* Leaving the with block (executor.shutdown(wait=True)) waits for every
\* submitted task; then the finally block, lines 689-695.
SchedFinish(r) ==
    /\ sched[r].pc = "shutdown"
    /\ \A i \in Submitted(r) : rows[r][i].pc = "done"
    /\ running' = FALSE
    /\ hist' = [hist EXCEPT ![r].terminal = IF stop_event THEN "stopped"
                                            ELSE "completed"]
    /\ sched' = [sched EXCEPT ![r].pc = "done"]
    /\ UNCHANGED << left_files, right_files, results, stop_event,
                    current_metric, max_workers,parse, nruns, edits, rows >>

(***************************************************************************)
(* Executor of run r: at most max_workers threads, tasks taken in the      *)
(* order of submission.                                                    *)
(***************************************************************************)
Executing(r) ==
    { i \in DOMAIN rows[r] : rows[r][i].pc \notin {"new", "queued", "done"} }

\* An executor that keeps one of its max_workers threads out of use.
WorkerFreeShort(r) == Cardinality(Executing(r)) < max_workers - 1

\* ThreadPoolExecutor(max_workers=self.max_workers), line 648.
WorkerFree(r) == Cardinality(Executing(r)) < max_workers

WorkerTake(r, i) ==
    /\ rows[r][i].pc = "queued"
    /\ \A j \in DOMAIN rows[r] : rows[r][j].pc = "queued" => i <= j
    /\ WorkerFree(r)
    /\ rows' = [rows EXCEPT ![r][i].pc = "begin"]
    /\ UNCHANGED << left_files, right_files, results, running, stop_event,
                    current_metric, max_workers,parse, nruns, edits, sched, hist >>


(***************************************************************************)
(* Row pipeline of task i of run r: compare_row and the functions it       *)
(* calls.  A directional invocation is named by its slot:                  *)
(*   v1, v2  run_single_video_comparison (left_ref, right_ref)             *)
(*   a1, a2  run_single_audio_comparison (left_ref, right_ref)             *)
(*   l1, l2  get_audio_loudness (left file, right file)                    *)
(* s1 and s2 hold the two values returned to the stage that is running:    *)
(* left_as_ref_score and right_as_ref_score, or left_loudness and          *)
(* right_loudness.                                                         *)
(***************************************************************************)
Task(r, i) == sched[r].tasks[i]

\* The reference (first) and distorted (second) input of the ffmpeg command
\* a slot builds: lines 747, 757, 867, 875 with 779, 785, 895.
Reference(r, i, slot) ==
    IF slot \in {"v1", "a1"} THEN Task(r, i).left ELSE Task(r, i).right

Distorted(r, i, slot) ==
    IF slot \in {"v1", "a1"} THEN Task(r, i).right ELSE Task(r, i).left

\* The files on the command lines a slot spawns (ffprobe and ffmpeg).
CommandFiles(r, i, slot) ==
    IF slot = "l1" THEN { rows[r][i].ff[1] }
    ELSE IF slot = "l2" THEN { rows[r][i].ff[2] }
    ELSE { Reference(r, i, slot), Distorted(r, i, slot) }

\* calls, psnr_failed and probes are kept for the rows that have seen no
\* stop: a row that sees stop_event set at one of its checks lets go of
\* them.
Unwound(row) ==
    [row EXCEPT !.calls = NewRow.calls, !.psnr_failed = 0, !.probes = 0]

\* Assigning the value an invocation returned to the caller's local; the
\* locals of the invocation are gone.
Returned(row, v) ==
    LET back == [row EXCEPT !.pc = "post", !.total_frames = 0, !.frame = 0]
    IN IF row.slot \in {"v1", "a1", "l1"} THEN [back EXCEPT !.s1 = v]
       ELSE [back EXCEPT !.s2 = v]

\* update_progress, lines 482-484: the event (row_id, progress_type, value)
\* is put on progress_queue.
update_progress(row, progress_type, value) ==
    [row EXCEPT !.progress[progress_type] = Some(value)]

\* A compare_row that does not report the end of a stage.
StageDoneSilent(row, progress_type) == row

\* Lines 714 and 721: compare_row reports the end of a stage.
StageDone(row, progress_type) == update_progress(row, progress_type, 100)

\* compare_row returning: the locals of the call are gone.
Finished(ret) == [NewRow EXCEPT !.pc = "done", !.ret = ret]

RowFrame == << left_files, right_files, results, running, stop_event,
               current_metric, max_workers,parse, nruns, edits, sched, hist >>

\* Lines 703-711: the first stop check, then the metric is read.
RowBegin(r, i) ==
    /\ rows[r][i].pc = "begin"
    /\ rows' = [rows EXCEPT ![r][i] =
                  IF stop_event THEN Finished(None)
                  ELSE update_progress(
                           [@ EXCEPT !.pc = "v_enter",
                                     !.metric = current_metric],
                           "video", 0)]
    /\ UNCHANGED RowFrame

\* Lines 741-746: run_video_comparison up to its first invocation.
VideoEnter(r, i) ==
    /\ rows[r][i].pc = "v_enter"
    /\ rows' = [rows EXCEPT ![r][i] =
                  IF stop_event
                  THEN [Unwound(@) EXCEPT !.pc = "after_video",
                                          !.vres = TieZero]
                  ELSE update_progress(
                           [@ EXCEPT !.pc = "call", !.slot = "v1"],
                           "video", 10)]
    /\ UNCHANGED RowFrame

\* Line 790: the total of the progress estimate, from the value
\* get_total_frames returned.
TotalFrames(count) == Max(1, IF count = None THEN 0 ELSE Val(count))

\* Lines 774-800 (video), 891-908 (audio PSNR), 1071-1088 (loudness): the
\* stop check on entry; a video invocation then asks get_total_frames for
\* the frame count of its reference file (ffprobe, run to its end); then
\* the subprocess is spawned.  FC holds the values get_total_frames can
\* return.
SingleCall(r, i, FC) ==
    /\ rows[r][i].pc = "call"
    /\ IF stop_event
       THEN /\ rows' = [rows EXCEPT ![r][i] =
                            Returned([Unwound(@) EXCEPT !.last = Cancelled],
                                     None)]
            /\ UNCHANGED hist
       ELSE /\ \E count \in FC :
                 LET video == rows[r][i].slot \in {"v1", "v2"} IN
                 rows' = [rows EXCEPT
                            ![r][i].pc = "poll",
                            ![r][i].proc = "running",
                            ![r][i].calls[rows[r][i].slot] = @ + 1,
                            ![r][i].probes = IF video THEN @ + 1 ELSE @,
                            ![r][i].total_frames =
                                IF video THEN TotalFrames(count) ELSE 0]
            /\ hist' = [hist EXCEPT ![r].used =
                            @ \cup CommandFiles(r, i, rows[r][i].slot)]
    /\ UNCHANGED << left_files, right_files, results, running, stop_event,
                    current_metric, max_workers,parse, nruns, edits, sched >>

\* Lines 805-806, 913-914, 1092-1093: the stop check at the head of the
\* monitoring loop; on stop process.terminate() is called.
SinglePoll(r, i) ==
    /\ rows[r][i].pc = "poll"
    /\ rows' = [rows EXCEPT ![r][i] =
                  IF stop_event
                  THEN [@ EXCEPT !.proc = "terminating", !.pc = "wait"]
                  ELSE [@ EXCEPT !.pc = "read"]]
    /\ UNCHANGED RowFrame

\* A cancellation that is reported like a failed subprocess.
TerminatedAsFailure(exited) ==
    [Cancelled EXCEPT !.signals = IF exited THEN << "terminate" >>
                                  ELSE << "terminate", "kill" >>,
                      !.exited = exited,
                      !.level = "ERROR", !.error = Some(None)]

\* A cancellation that sends the terminate request and nothing more.
SignalsGraceful(exited) == << "terminate" >>

\* A cancellation that kills the subprocess whether or not it has exited.
SignalsForced(exited) == << "terminate", "kill" >>

\* Lines 806-810: the signals sent to the subprocess, which has exited
\* within the grace period of process.wait(timeout=5) or has not.
Signals(exited) ==
    IF exited THEN << "terminate" >> ELSE << "terminate", "kill" >>

Terminated(exited) ==
    [Cancelled EXCEPT !.signals = Signals(exited), !.exited = exited]

\* Lines 807-811, 915-919, 1094-1098: process.wait(timeout=5) returns (the
\* subprocess has exited) or raises TimeoutExpired and process.kill() is
\* called; the invocation returns None.
SingleWait(r, i) ==
    /\ rows[r][i].pc = "wait"
    /\ \E exited \in BOOLEAN :
         rows' = [rows EXCEPT ![r][i] =
                    Returned(Unwound([@ EXCEPT !.proc = "none",
                                               !.last = Terminated(exited)]),
                             None)]
    /\ UNCHANGED RowFrame

\* Lines 813-821: readline() blocks until the subprocess has written a line
\* to its stderr; the line (which holds no frame counter, or is read by an
\* audio invocation) is kept, the loop sleeps and goes round.
SingleReadLine(r, i) ==
    /\ rows[r][i].pc = "read"
    /\ rows' = [rows EXCEPT ![r][i].pc = "poll"]
    /\ UNCHANGED RowFrame

\* An estimate that does not cap the frame ratio at 1.
extract_ffmpeg_progress_uncapped(row, curr_frame) ==
    IF curr_frame > 0
    THEN LET base_progress == IF row.slot = "v1" THEN 10 ELSE 55
             additional_progress == (curr_frame * 45) \div row.total_frames
         IN update_progress(row, "video", base_progress + additional_progress)
    ELSE row

\* extract_ffmpeg_progress, lines 838-856, for a line that holds "frame=n":
\* int(min(1, curr_frame / total_frames) * 45) on top of the base of the
\* pass.  (For a total below 45 the float computation gives the integer
\* quotient used here.)
extract_ffmpeg_progress(row, curr_frame) ==
    IF curr_frame > 0
    THEN LET base_progress == IF row.slot = "v1" THEN 10 ELSE 55
             additional_progress ==
                 IF curr_frame >= row.total_frames THEN 45
                 ELSE (curr_frame * 45) \div row.total_frames
         IN update_progress(row, "video", base_progress + additional_progress)
    ELSE row

\* Lines 813-819: readline() returns a progress line of ffmpeg, "frame=n";
\* the frame counter of a subprocess does not go down.
SingleReadFrame(r, i) ==
    /\ rows[r][i].pc = "read"
    /\ rows[r][i].slot \in {"v1", "v2"}
    /\ \E curr_frame \in rows[r][i].frame .. MaxFrame :
         rows' = [rows EXCEPT ![r][i] =
                    extract_ffmpeg_progress(
                        [@ EXCEPT !.pc = "poll", !.frame = curr_frame],
                        curr_frame)]
    /\ UNCHANGED RowFrame

\* Lines 834-836 and 940-942: the except clause of a video or audio PSNR
\* invocation puts an ERROR entry; that of get_audio_loudness (lines
\* 1121-1122) returns None and puts nothing.
ExceptLevel(slot) == IF slot \in {"l1", "l2"} THEN "-" ELSE "ERROR"

\* Lines 793 / 901 / 1081: Popen raises (OSError: the ffmpeg binary cannot
\* be executed); the except clause of the invocation (lines 834, 940, 1121)
\* logs the error and returns None.
SingleRaise(r, i) ==
    /\ rows[r][i].pc = "call"
    /\ ~stop_event
    /\ rows' = [rows EXCEPT ![r][i] =
                  Returned([@ EXCEPT !.last =
                                        [Raised EXCEPT !.level =
                                           ExceptLevel(rows[r][i].slot)],
                                     !.calls[rows[r][i].slot] = @ + 1,
                                     !.probes =
                                        IF rows[r][i].slot \in {"v1", "v2"}
                                        THEN @ + 1 ELSE @], None)]
    /\ hist' = [hist EXCEPT ![r].raised = @ \cup {i}]
    /\ UNCHANGED << left_files, right_files, results, running, stop_event,
                    current_metric, max_workers,parse, nruns, edits, sched >>

\* run_single_video_comparison and run_single_audio_comparison that parse
\* the captured text whatever the exit code is.
InvocationValueParsed(slot, rc, text) == text

\* Lines 827-832 and 933-938: a non-zero exit code gives None without
\* parsing; otherwise the parser's value.  get_audio_loudness (lines
\* 1101-1119) does not look at the exit code.
InvocationValue(slot, rc, text) ==
    IF slot \in {"l1", "l2"} THEN text
    ELSE IF rc # 0 THEN None
    ELSE text

\* Lines 828-829 and 934-935: the ERROR entry of a non-zero exit code
\* carries the captured text.
InvocationError(slot, rc, text) ==
    IF slot \notin {"l1", "l2"} /\ rc # 0 THEN Some(text) ELSE None

\* The entries an invocation whose subprocess has exited puts on log_queue:
\* ERROR for a non-zero exit code (lines 828-829, 934-935), else what the
\* parser puts, WARNING when no pattern matches (lines 1152, 1195, 1217)
\* and INFO with the score (lines 1142, 1167, 1208).  get_audio_loudness
\* (lines 1068-1122) puts no entry at all.
InvocationLevel(slot, rc, text) ==
    IF slot \in {"l1", "l2"} THEN "-"
    ELSE IF rc # 0 THEN "ERROR"
    ELSE IF text = None THEN "WARNING"
    ELSE "INFO"

\* The score the text captured from a subprocess of the slot can hold: None
\* (no pattern matches) or a score.
Outcomes(slot, VS, AS, LS) ==
    IF slot \in {"v1", "v2"} THEN Opt(VS)
    ELSE IF slot \in {"a1", "a2"} THEN Opt(AS)
    ELSE Opt(LS)

\* Lines 814-832, 922-938, 1101-1119: readline() returns '' and the
\* subprocess has exited on its own; the exit code is tested and the
\* captured text parsed.
SingleReadEof(r, i, VS, AS, LS) ==
    /\ rows[r][i].pc = "read"
    /\ \E rc \in ExitCodes, text \in Outcomes(rows[r][i].slot, VS, AS, LS) :
         LET slot == rows[r][i].slot IN
         rows' = [rows EXCEPT ![r][i] =
                    Returned([@ EXCEPT !.proc = "none",
                                       !.last =
                                          [NoOutcome EXCEPT
                                             !.kind = "exited", !.rc = rc,
                                             !.text = text,
                                             !.error = InvocationError(
                                                           slot, rc, text),
                                             !.level = InvocationLevel(
                                                           slot, rc, text)]],
                             InvocationValue(slot, rc, text))]
    /\ UNCHANGED RowFrame

\* The number of None among the two arguments of determine_audio_winner.
Unavailable(left_as_ref_score, right_as_ref_score) ==
    (IF left_as_ref_score = None THEN 1 ELSE 0)
        + (IF right_as_ref_score = None THEN 1 ELSE 0)

\* determine_audio_winner, lines 1004-1028, and the entry of
\* run_audio_analysis_fallback: the fallback is called with the files that
\* self.left_files and self.right_files hold at row_idx at that moment; an
\* IndexError is caught at line 1030.
determine_audio_winner(row, i) ==
    IF row.s1 # None /\ row.s2 # None
    THEN [row EXCEPT !.pc = "after_audio", !.apath = "psnr",
                     !.psnr_failed = Unavailable(row.s1, row.s2),
                     !.ares = psnr_decision(row.s1, row.s2)]
    ELSE IF i \in DOMAIN left_files /\ i \in DOMAIN right_files
    THEN [row EXCEPT !.pc = "f_enter", !.apath = "loudness",
                     !.psnr_failed = Unavailable(row.s1, row.s2),
                     !.ff = << left_files[i], right_files[i] >>,
                     !.s1 = None, !.s2 = None]
    ELSE [row EXCEPT !.pc = "after_audio", !.apath = "error",
                     !.psnr_failed = Unavailable(row.s1, row.s2),
                     !.s1 = None, !.s2 = None,
                     !.ares = TieZero]

\* The stop check after an invocation has returned, and what the stage does
\* next: lines 749-765, 868-882, 1041-1062.
AfterInvocation(row, i) ==
    LET slot == row.slot IN
    IF stop_event
    THEN IF slot \in {"v1", "v2"}
         THEN [Unwound(row) EXCEPT !.pc = "after_video", !.vres = TieZero]
         ELSE [Unwound(row) EXCEPT !.pc = "after_audio", !.ares = TieZero]
    ELSE IF slot = "v1"
         THEN update_progress([row EXCEPT !.pc = "call", !.slot = "v2"],
                              "video", 55)
    ELSE IF slot = "v2"
         THEN update_progress(
                  [row EXCEPT !.pc = "after_video",
                              !.vres = determine_video_winner(row.s1, row.s2,
                                                              row.metric)],
                  "video", 100)
    ELSE IF slot = "a1"
         THEN update_progress([row EXCEPT !.pc = "call", !.slot = "a2"],
                              "audio", 50)
    ELSE IF slot = "a2"
         THEN determine_audio_winner(update_progress(row, "audio", 75), i)
    ELSE IF slot = "l1" THEN [row EXCEPT !.pc = "call", !.slot = "l2"]
    ELSE [row EXCEPT !.pc = "after_audio",
                     !.ares = loudness_decision(row.s1, row.s2)]

SinglePost(r, i) ==
    /\ rows[r][i].pc = "post"
    /\ LET next == AfterInvocation(rows[r][i], i) IN
         /\ rows' = [rows EXCEPT ![r][i] = [next EXCEPT !.last = NoOutcome]]
         /\ hist' = IF next.apath = "error"
                    THEN [hist EXCEPT ![r].raised = @ \cup {i}]
                    ELSE hist
    /\ UNCHANGED << left_files, right_files, results, running, stop_event,
                    current_metric, max_workers,parse, nruns, edits, sched >>

\* A fallback that measures the right file first.
FallbackEnterRight(r, i) ==
    /\ rows[r][i].pc = "f_enter"
    /\ rows' = [rows EXCEPT ![r][i] =
                  IF stop_event
                  THEN [Unwound(@) EXCEPT !.pc = "after_audio",
                                          !.ares = TieZero]
                  ELSE [@ EXCEPT !.pc = "call", !.slot = "l2"]]
    /\ UNCHANGED RowFrame

\* Lines 1037-1040: the stop check on entry of the fallback.
FallbackEnter(r, i) ==
    /\ rows[r][i].pc = "f_enter"
    /\ rows' = [rows EXCEPT ![r][i] =
                  IF stop_event
                  THEN [Unwound(@) EXCEPT !.pc = "after_audio",
                                          !.ares = TieZero]
                  ELSE [@ EXCEPT !.pc = "call", !.slot = "l1"]]
    /\ UNCHANGED RowFrame

\* Lines 712-717: back in compare_row after the video stage.
AfterVideo(r, i) ==
    /\ rows[r][i].pc = "after_video"
    /\ rows' = [rows EXCEPT ![r][i] =
                  IF stop_event THEN Finished(None)
                  ELSE update_progress(
                           StageDone([@ EXCEPT !.pc = "a_enter", !.slot = "-",
                                               !.s1 = None, !.s2 = None],
                                     "video"),
                           "audio", 0)]
    /\ UNCHANGED RowFrame

\* Lines 861-866: run_audio_comparison up to its first invocation.
AudioEnter(r, i) ==
    /\ rows[r][i].pc = "a_enter"
    /\ rows' = [rows EXCEPT ![r][i] =
                  IF stop_event
                  THEN [Unwound(@) EXCEPT !.pc = "after_audio",
                                          !.ares = TieZero]
                  ELSE update_progress(
                           [@ EXCEPT !.pc = "call", !.slot = "a1"],
                           "audio", 25)]
    /\ UNCHANGED RowFrame

\* The dict compare_row returns, lines 725-732.
RowResult(video_result, audio_result) ==
    [video_winner |-> video_result.winner,
     audio_winner |-> audio_result.winner,
     video_score_left |-> video_result.left_score,
     video_score_right |-> video_result.right_score,
     audio_score_left |-> audio_result.left_score,
     audio_score_right |-> audio_result.right_score]

\* Lines 719-732: the last stop check, then the end of the audio stage is
\* reported and the result returned.
AfterAudio(r, i) ==
    /\ rows[r][i].pc = "after_audio"
    /\ rows' = [rows EXCEPT ![r][i] =
                  IF stop_event THEN Finished(None)
                  ELSE [Finished(Some(RowResult(@.vres, @.ares))) EXCEPT
                           !.progress =
                              StageDone(rows[r][i], "audio").progress]]
    /\ UNCHANGED RowFrame

RowStep(r, i, VS, AS, LS, FC) ==
    \/ WorkerTake(r, i)
    \/ RowBegin(r, i)
    \/ VideoEnter(r, i)
    \/ SingleCall(r, i, FC)
    \/ SinglePoll(r, i)
    \/ SingleWait(r, i)
    \/ SingleReadLine(r, i)
    \/ SingleReadEof(r, i, VS, AS, LS)
    \/ SinglePost(r, i)
    \/ FallbackEnter(r, i)
    \/ AfterVideo(r, i)
    \/ AudioEnter(r, i)
    \/ AfterAudio(r, i)

SchedStep(r) ==
    \/ SchedBuild(r)
    \/ SchedSubmit(r)
    \/ SchedCollect(r)
    \/ SchedCollectEnd(r)
    \/ SchedFinish(r)

(***************************************************************************)
(* Specifications.                                                         *)
(***************************************************************************)
\* Restart: the user starts, stops and starts again; the file lists and the
\* metric selection are left alone.
Next ==
    \/ start_comparison
    \/ stop_comparison
    \/ \E r \in Runs : SchedStep(r)
    \/ \E r \in Runs : \E i \in DOMAIN rows[r] :
          RowStep(r, i, RunVideoScores, RunAudioScores, RunLoudScores,
                  RunFrameCounts)

Spec == Init /\ [][Next]_vars

\* One run, during which the user edits the file lists or changes the metric
\* selection (at most MaxEdits times) and may stop the run.
NextGui ==
    \/ (nruns = 0 /\ start_comparison)
    \/ stop_comparison
    \/ reorder_files
    \/ remove_selected_file
    \/ clear_all_files
    \/ select_metric
    \/ \E r \in Runs : SchedStep(r)
    \/ \E r \in Runs : \E i \in DOMAIN rows[r] :
          RowStep(r, i, RunVideoScores, RunAudioScores, RunLoudScores,
                  RunFrameCounts)

SpecGui == Init /\ [][NextGui]_vars

\* One row compared by one worker, never stopped, with the subprocesses
\* reporting the scores around the tie bands, exiting with either exit code,
\* or failing to start.
InitRow ==
    /\ Init
    /\ Len(left_files) = 1
    /\ Len(right_files) = 1
    /\ max_workers = 1

NextRow ==
    \/ (nruns = 0 /\ start_comparison)
    \/ (nruns = 0 /\ select_metric)
    \/ \E r \in Runs : SchedStep(r)
    \/ \E r \in Runs : \E i \in DOMAIN rows[r] :
          RowStep(r, i, RowVideoScores, RowAudioScores, RowLoudScores,
                  RunFrameCounts)
    \/ \E r \in Runs : \E i \in DOMAIN rows[r] : SingleRaise(r, i)

SpecRow == InitRow /\ [][NextRow]_vars

\* One run that the user may stop, with the threads scheduled fairly: the
\* scheduler thread and every worker thread keep running (weak fairness),
\* and every spawned subprocess eventually exits, so that a readline()
\* eventually returns '' with the exit code set (strong fairness: the row
\* alternates between the stop check and the read).
NextLive ==
    \/ (nruns = 0 /\ start_comparison)
    \/ stop_comparison
    \/ \E r \in Runs : SchedStep(r)
    \/ \E r \in Runs : \E i \in DOMAIN rows[r] :
          RowStep(r, i, RunVideoScores, RunAudioScores, RunLoudScores,
                  RunFrameCounts)

Fairness ==
    \A r \in Runs :
        /\ WF_vars(SchedStep(r))
        /\ \A i \in 1 .. MaxFiles :
            /\ WF_vars(i \in DOMAIN rows[r] /\
                       RowStep(r, i, RunVideoScores, RunAudioScores,
                               RunLoudScores, RunFrameCounts))
            /\ SF_vars(i \in DOMAIN rows[r] /\
                       SingleReadEof(r, i, RunVideoScores, RunAudioScores,
                                     RunLoudScores))

SpecLive == Init /\ [][NextLive]_vars /\ Fairness

\* One row compared by one worker, which the user may stop, with ffmpeg
\* printing its frame counter and get_total_frames returning any count or
\* None.
NextProgress ==
    \/ (nruns = 0 /\ start_comparison)
    \/ stop_comparison
    \/ \E r \in Runs : SchedStep(r)
    \/ \E r \in Runs : \E i \in DOMAIN rows[r] :
          RowStep(r, i, RunVideoScores, RunAudioScores, RunLoudScores,
                  LiveFrameCounts)
    \/ \E r \in Runs : \E i \in DOMAIN rows[r] : SingleReadFrame(r, i)

SpecProgress == InitRow /\ [][NextProgress]_vars

\* A parser applied to a text: every text of at most MaxTokens tokens.
Texts(Tokens) == UNION { [1 .. n -> Tokens] : n \in 0 .. MaxTokens }

InitParse ==
    /\ left_files = << LeftFile(1) >>
    /\ right_files = << RightFile(1) >>
    /\ results = NoResults
    /\ running = FALSE
    /\ stop_event = FALSE
    /\ current_metric = "VMAF"
    /\ max_workers = 1
    /\ nruns = 0
    /\ edits = 0
    /\ sched = [r \in Runs |-> IdleSched]
    /\ rows = [r \in Runs |-> << >>]
    /\ hist = [r \in Runs |-> NoHist]
    /\ \/ \E output \in Texts(VmafTokens) :
             parse = [NoParse EXCEPT !.parser = "vmaf", !.output = output,
                                     !.pc = "call"]
       \/ \E output \in Texts(AudioTokens) :
             parse = [NoParse EXCEPT !.parser = "audio", !.output = output,
                                     !.pc = "call"]

ParseFrame == << left_files, right_files, results, running, stop_event,
                 current_metric, max_workers, nruns, edits, sched, rows,
                 hist >>

ParseVmaf ==
    /\ parse.pc = "call"
    /\ parse.parser = "vmaf"
    /\ parse' = [parse EXCEPT
                    !.pc = "returned",
                    !.score = parse_single_vmaf_output(parse.output)]
    /\ UNCHANGED ParseFrame

ParseAudio ==
    /\ parse.pc = "call"
    /\ parse.parser = "audio"
    /\ parse' = [parse EXCEPT
                    !.pc = "returned",
                    !.score = parse_single_audio_output(parse.output)]
    /\ UNCHANGED ParseFrame

NextParse == ParseVmaf \/ ParseAudio

SpecParse == InitParse /\ [][NextParse]_vars

\* One run that the user may stop, with the threads of the program
\* scheduled fairly and nothing assumed of the subprocesses: a subprocess
\* may stay silent and alive, so that a readline() never returns.
RowOwnStep(r, i) ==
    \/ WorkerTake(r, i)
    \/ RowBegin(r, i)
    \/ VideoEnter(r, i)
    \/ SingleCall(r, i, RunFrameCounts)
    \/ SinglePoll(r, i)
    \/ SingleWait(r, i)
    \/ SinglePost(r, i)
    \/ FallbackEnter(r, i)
    \/ AfterVideo(r, i)
    \/ AudioEnter(r, i)
    \/ AfterAudio(r, i)

FairnessOwn ==
    \A r \in Runs :
        /\ WF_vars(SchedStep(r))
        /\ \A i \in 1 .. MaxFiles :
            WF_vars(i \in DOMAIN rows[r] /\ RowOwnStep(r, i))

SpecSilent == Init /\ [][NextLive]_vars /\ FairnessOwn


(***************************************************************************)
(* Properties.                                                             *)
(***************************************************************************)
\* The row tasks of all runs, each named by its run and its row.
AllRows == UNION { { << r, i >> : i \in DOMAIN rows[r] } : r \in Runs }

RowsAt(p) == { x \in AllRows : rows[x[1]][x[2]].pc = p }

RowOf(x) == rows[x[1]][x[2]]

(***************************************************************************)
(* C1.  Video winner decision.  Whenever determine_video_winner has been   *)
(* given two available directional scores, under VMAF (threshold 2.0) and  *)
(* under SSIM (threshold 0.01): the winner is tie if and only if the       *)
(* absolute difference of the two scores is strictly below the threshold   *)
(* (a difference equal to the threshold is not a tie), and a winner other  *)
(* than tie is the side whose returned score is strictly higher.           *)
(***************************************************************************)
C1_VideoTieRule ==
    \A x \in RowsAt("after_video") :
        LET row == RowOf(x) IN
        (row.s1 # None /\ row.s2 # None) =>
            LET d == Abs(Val(row.s1) - Val(row.s2))
                t == IF row.metric = "VMAF" THEN 2000 ELSE 10
                L == row.vres.left_score
                R == row.vres.right_score
            IN /\ (row.vres.winner = "tie") <=> (d < t)
               /\ Abs(L - R) = d
               /\ row.vres.winner = "left" => L > R
               /\ row.vres.winner = "right" => R > L
               /\ row.vres.winner \in {"tie", "left", "right"}

\* C1 witness: under VMAF the scores 95.0 and 97.0 differ by exactly the
\* threshold and the decision is right, not tie.
C1_Witness ==
    \E x \in RowsAt("after_video") :
        /\ RowOf(x).metric = "VMAF"
        /\ RowOf(x).s1 = Some(95000)
        /\ RowOf(x).s2 = Some(97000)
        /\ RowOf(x).vres.winner = "right"

(***************************************************************************)
(* C2.  Audio winner decision on the PSNR path.  When both audio PSNR      *)
(* scores are available, the winner is tie if and only if the absolute     *)
(* difference of the scores is strictly below 1.0 dB (exactly 1.0 is not   *)
(* a tie), otherwise the side with the higher score; the scores 40.0       *)
(* (left) and 37.5 (right) give left.                                      *)
(***************************************************************************)
C2_AudioPsnrTieRule ==
    \A x \in RowsAt("after_audio") :
        LET row == RowOf(x) IN
        (row.apath = "psnr") =>
            LET L == row.ares.left_score
                R == row.ares.right_score
            IN /\ row.s1 # None /\ row.s2 # None
               /\ { L, R } = { Val(row.s1), Val(row.s2) }
               /\ (row.ares.winner = "tie") <=> (Abs(L - R) < 1000)
               /\ row.ares.winner = "left" => L > R
               /\ row.ares.winner = "right" => R > L
               /\ row.ares.winner \in {"tie", "left", "right"}
               /\ (L = 40000 /\ R = 37500) => row.ares.winner = "left"

\* C2 witness: the PSNR decision on 40.0 (left) and 37.5 (right) is left.
C2_Witness ==
    \E x \in RowsAt("after_audio") :
        /\ RowOf(x).apath = "psnr"
        /\ RowOf(x).ares.left_score = 40000
        /\ RowOf(x).ares.right_score = 37500
        /\ RowOf(x).ares.winner = "left"

\* The value returned by the invocation of the running stage in which
\* `file` was the distorted input (slotA filled s1, slotB filled s2).
ScoreAsDistorted(x, file, slotA, slotB) ==
    IF Distorted(x[1], x[2], slotA) = file THEN RowOf(x).s1
    ELSE IF Distorted(x[1], x[2], slotB) = file THEN RowOf(x).s2
    ELSE None

(***************************************************************************)
(* C3.  Score attribution.  The score a stage reports for a file (the      *)
(* left_score and right_score that compare_row copies into the RowResult)  *)
(* is the directional score of the invocation in which that file was the   *)
(* distorted input: the left score comes from the right-as-reference       *)
(* invocation and the right score from the left-as-reference invocation,   *)
(* for video and for audio on the PSNR path.                               *)
(***************************************************************************)
C3_ScoreAttribution ==
    /\ \A x \in RowsAt("after_video") :
        LET row == RowOf(x)
            t == Task(x[1], x[2])
        IN (row.s1 # None /\ row.s2 # None) =>
             /\ Some(row.vres.left_score) =
                    ScoreAsDistorted(x, t.left, "v1", "v2")
             /\ Some(row.vres.right_score) =
                    ScoreAsDistorted(x, t.right, "v1", "v2")
    /\ \A x \in RowsAt("after_audio") :
        LET row == RowOf(x)
            t == Task(x[1], x[2])
        IN (row.apath = "psnr") =>
             /\ Some(row.ares.left_score) =
                    ScoreAsDistorted(x, t.left, "a1", "a2")
             /\ Some(row.ares.right_score) =
                    ScoreAsDistorted(x, t.right, "a1", "a2")

\* A run is active from the start of its scheduler thread until the thread
\* has left run_comparisons, which it does after its last row worker.
RunActive(r) == sched[r].pc \notin {"idle", "done"}

(***************************************************************************)
(* C4.  At most one comparison run is active at any time: a start request  *)
(* made while a previous run's scheduler thread or one of its row workers  *)
(* is still executing is rejected, also after a stop request.              *)
(***************************************************************************)
C4_SingleActiveRun ==
    Cardinality({ r \in Runs : RunActive(r) }) <= 1

(***************************************************************************)
(* C5.  Cancellation mid-row yields no result: a row of a run that had     *)
(* not returned a complete result when the stop request of that run was    *)
(* made never has a result written to the results mapping.                 *)
(***************************************************************************)
C5_NoResultAfterCancel ==
    \A r \in Runs :
        hist[r].stopReq => hist[r].stored \subseteq hist[r].completeAtStop

(***************************************************************************)
(* C6.  Completed rows keep their results across cancellation: once a      *)
(* stopped run has wound down, every row whose compare_row had returned a  *)
(* complete result before the stop request has had that result written     *)
(* to the results mapping (a result never written cannot be present).      *)
(***************************************************************************)
C6_CompletedRowsKept ==
    \A r \in Runs :
        (hist[r].stopReq /\ sched[r].pc = "done") =>
            hist[r].completeAtStop \subseteq hist[r].stored

(***************************************************************************)
(* C7.  The cancellation flag is never reset while rows of a stopped run   *)
(* are in flight: once a stop request has set it, it stays set as long as  *)
(* a row of that run is inside compare_row.                                *)
(***************************************************************************)
C7_FlagStaysSet ==
    [][ (stop_event /\ \E r \in Runs : hist[r].stopReq /\ Executing(r) # {})
            => stop_event' ]_vars

(***************************************************************************)
(* C8.  Terminal status: the terminal status a run logs is "stopped" if    *)
(* and only if a stop request was made during that run, otherwise "all     *)
(* completed".                                                             *)
(***************************************************************************)
C8_TerminalStatus ==
    \A r \in Runs :
        /\ hist[r].terminal = "stopped" => hist[r].stopReq
        /\ hist[r].terminal = "completed" => ~hist[r].stopReq

(***************************************************************************)
(* C9.  Row count: a run creates exactly min(|left_files|, |right_files|)  *)
(* row tasks, row i pairing left_files[i] with right_files[i], and the     *)
(* files at the positions past that minimum on the longer side are never   *)
(* on the command line of a subprocess of the run.                         *)
(***************************************************************************)
C9_RowCount ==
    \A r \in Runs :
        (sched[r].pc \notin {"idle", "build"}) =>
            /\ Len(sched[r].tasks) = Min(hist[r].nleft, hist[r].nright)
            /\ hist[r].used \cap hist[r].excluded = {}

(***************************************************************************)
(* C10.  Worker pool bound: the number of rows that are inside             *)
(* compare_row at the same time is at most max_workers.                    *)
(***************************************************************************)
C10_WorkerBound ==
    Cardinality({ x \in AllRows : x[2] \in Executing(x[1]) }) <= max_workers


\* Run r has left run_comparisons after its scheduler took every row task
\* from as_completed, each with a stored RowResult or with None.
Harvested(r) ==
    /\ sched[r].pc = "done"
    /\ sched[r].yielded = DOMAIN sched[r].tasks
    /\ \A i \in DOMAIN sched[r].tasks :
          /\ rows[r][i].pc = "done"
          /\ (rows[r][i].ret # None) <=> (i \in hist[r].stored)
    /\ hist[r].terminal # "none"
    /\ ~running

(***************************************************************************)
(* C11.  No row is silently dropped: in a run with no stop request, if     *)
(* every spawned subprocess eventually exits, every row task of the run    *)
(* is eventually executed and harvested by the scheduler, with a stored    *)
(* RowResult or an explicit None, and the run eventually reaches its       *)
(* terminal status with running = false.                                   *)
(***************************************************************************)
C11_NoRowDropped ==
    \A r \in Runs :
        (sched[r].pc = "build") ~> (hist[r].stopReq \/ Harvested(r))

\* C11 witness: a run of two rows that was never stopped has been harvested.
C11_Witness ==
    \E r \in Runs :
        /\ Harvested(r)
        /\ ~hist[r].stopReq
        /\ Len(sched[r].tasks) = 2
        /\ hist[r].terminal = "completed"


(***************************************************************************)
(* C12.  Audio fallback invocation count: in a row where both audio PSNR   *)
(* invocations yield no score and no cancellation occurs, the loudness     *)
(* measurement is invoked exactly once for the row's left file and         *)
(* exactly once for its right file, and the row has started exactly two    *)
(* audio PSNR invocations when its audio stage returns.                    *)
(***************************************************************************)
C12_FallbackInvocations ==
    \A x \in RowsAt("after_audio") :
        LET row == RowOf(x)
            t == Task(x[1], x[2])
        IN (~hist[x[1]].stopReq /\ row.apath # "-"
                /\ row.psnr_failed = 2) =>
             /\ row.calls["l1"] = 1
             /\ row.calls["l2"] = 1
             /\ row.ff = << t.left, t.right >>
             /\ row.calls["a1"] + row.calls["a2"] = 2

(***************************************************************************)
(* C13.  Audio fallback decision: the loudness fallback is used if and     *)
(* only if at least one of the two audio PSNR scores is unavailable; when  *)
(* both loudness values are available the audio winner is tie if and only  *)
(* if they differ by strictly less than 1.0, otherwise the side with the   *)
(* higher loudness, and the audio scores are the loudness values of the    *)
(* row's left and right file;                                              *)
(* when a loudness value is unavailable the audio winner is tie with both  *)
(* audio scores 0.                                                         *)
(***************************************************************************)
C13_FallbackDecision ==
    \A x \in RowsAt("after_audio") :
        LET row == RowOf(x)
            t == Task(x[1], x[2])
            L == row.ares.left_score
            R == row.ares.right_score
        IN (~hist[x[1]].stopReq /\ row.apath # "-") =>
             /\ (row.apath = "loudness")
                    <=> (row.psnr_failed > 0)
             /\ (row.apath # "psnr" /\ row.s1 # None /\ row.s2 # None) =>
                    /\ row.ff = << t.left, t.right >>
                    /\ L = Val(row.s1)
                    /\ R = Val(row.s2)
                    /\ (row.ares.winner = "tie") <=> (Abs(L - R) < 1000)
                    /\ row.ares.winner = "left" => L > R
                    /\ row.ares.winner = "right" => R > L
                    /\ row.ares.winner \in {"tie", "left", "right"}
             /\ (row.apath # "psnr" /\ (row.s1 = None \/ row.s2 = None)) =>
                    row.ares = TieZero


(***************************************************************************)
(* C14.  One-sided video failure degrades only the missing score: when     *)
(* exactly one of the two video directional scores is unavailable, the     *)
(* missing score is treated as 0, the available score is kept in the       *)
(* video result and the winner is computed from that pair by the tie       *)
(* rule; the result is forced to tie with both scores 0 only when both     *)
(* directional scores are unavailable.                                     *)
(***************************************************************************)
C14_OneSidedVideoFailure ==
    \A x \in RowsAt("after_video") :
        LET row == RowOf(x)
            t == IF row.metric = "VMAF" THEN 2000 ELSE 10
            L == row.vres.left_score
            R == row.vres.right_score
        IN (~hist[x[1]].stopReq /\ row.calls["v1"] = 1 /\ row.calls["v2"] = 1) =>
             /\ (row.s1 = None /\ row.s2 = None) => row.vres = TieZero
             /\ (row.s1 # None /\ row.s2 = None) =>
                    /\ { L, R } = { Val(row.s1), 0 }
                    /\ row.vres.winner = Decide(L, R, t)
             /\ (row.s1 = None /\ row.s2 # None) =>
                    /\ { L, R } = { Val(row.s2), 0 }
                    /\ row.vres.winner = Decide(L, R, t)


(***************************************************************************)
(* C15.  Unexpected internal error yields no result: a row in whose        *)
(* pipeline an exception was raised (in a stage runner, a directional      *)
(* invocation, the winner decision or the audio fallback) never has a      *)
(* RowResult written to the results mapping.                               *)
(***************************************************************************)
C15_ErrorYieldsNoResult ==
    \A r \in Runs : hist[r].raised \cap hist[r].stored = {}

\* The value the invocation that has just returned handed to its caller.
LastValue(row) ==
    IF row.slot \in {"v1", "a1", "l1"} THEN row.s1 ELSE row.s2

(***************************************************************************)
(* C19.  Process failure: when a video or audio PSNR subprocess exits      *)
(* with a non-zero code, the directional score is unavailable whatever     *)
(* the captured text holds, an error entry carrying the captured text is   *)
(* logged, and the invocation has spawned one process only (no retry).     *)
(***************************************************************************)
C19_ProcessFailure ==
    \A x \in RowsAt("post") :
        LET row == RowOf(x) IN
        (row.slot \in {"v1", "v2", "a1", "a2"} /\ row.last.kind = "exited"
            /\ row.last.rc # 0) =>
             /\ LastValue(row) = None
             /\ row.last.error = Some(row.last.text)
             /\ row.calls[row.slot] = 1

\* C19 witness: a video subprocess whose text holds the score 95.0 has exited
\* with a non-zero code and the invocation has returned None.
C19_Witness ==
    \E x \in RowsAt("post") :
        /\ RowOf(x).slot = "v1"
        /\ RowOf(x).last.kind = "exited"
        /\ RowOf(x).last.rc = 1
        /\ RowOf(x).last.text = Some(95000)
        /\ RowOf(x).s1 = None

(***************************************************************************)
(* C20.  Cancelled is a distinct outcome: the value returned by a          *)
(* directional invocation that was aborted by cancellation differs from    *)
(* the value returned by one that failed or could not be parsed (None),    *)
(* and the caller of a cancelled invocation never goes on with the row as  *)
(* if the score were unavailable.                                          *)
(***************************************************************************)
C20_CancelledIsDistinct ==
    \A x \in RowsAt("post") :
        LET row == RowOf(x) IN
        (row.last.kind = "cancelled") =>
            /\ LastValue(row) # None
            /\ stop_event


(***************************************************************************)
(* C16.  Failure containment: in a run without a stop request, whichever   *)
(* rows had a process failure or a parse failure and in whatever order     *)
(* the rows finish, every row whose compare_row returned a result has      *)
(* that very result stored under its key when the run has ended.           *)
(***************************************************************************)
C16_FailureContainment ==
    \A r \in Runs :
        (sched[r].pc = "done" /\ ~hist[r].stopReq) =>
            \A i \in Completed(r) :
                /\ i \in hist[r].stored
                /\ i \in DOMAIN results
                /\ results[i].run = r
                /\ results[i].res = Val(rows[r][i].ret)

\* C16 witness: in a run of two rows that was not stopped the video stage of
\* row 1 had no score (a process or parse failure), row 2 has its scores,
\* and both results are stored.
C16_Witness ==
    \E r \in Runs :
        /\ sched[r].pc = "done"
        /\ ~hist[r].stopReq
        /\ hist[r].stored = {1, 2}
        /\ DOMAIN results = {1, 2}
        /\ results[1].res.video_score_left = 0
        /\ results[1].res.video_score_right = 0
        /\ results[2].res.video_score_left = 95000


(***************************************************************************)
(* C17.  Run-wide metric kind: within one run every row's video            *)
(* invocations and winner threshold, and the score display of every        *)
(* stored result, use the metric that was selected when the run started,   *)
(* even if the selection is changed while the run is in progress.          *)
(***************************************************************************)
C17_RunWideMetric ==
    /\ \A x \in AllRows :
          RowOf(x).metric # "-" =>
              RowOf(x).metric = hist[x[1]].metric_at_start
    /\ \A i \in DOMAIN results :
          results[i].display = hist[results[i].run].metric_at_start

\* The files on the command line of the subprocess row x is running.
Spawned(x) ==
    IF RowOf(x).proc = "running"
    THEN CommandFiles(x[1], x[2], RowOf(x).slot)
    ELSE {}

(***************************************************************************)
(* C18.  File pairs are immutable during a run: every subprocess of row i  *)
(* (video, audio PSNR and loudness fallback) operates on the left and      *)
(* right paths that position i of the lists held when the run started,     *)
(* even if the lists are reordered, shortened or cleared while the run is  *)
(* in progress.                                                            *)
(***************************************************************************)
C18_FilePairsImmutable ==
    \A x \in AllRows :
        LET r == x[1]
            i == x[2]
        IN Spawned(x) # {} =>
             /\ i \in DOMAIN hist[r].left_at_start
             /\ i \in DOMAIN hist[r].right_at_start
             /\ Spawned(x) \subseteq
                    { hist[r].left_at_start[i], hist[r].right_at_start[i] }


(***************************************************************************)
(* C21.  Strict order within a row.  Whenever a row spawns a metric        *)
(* subprocess, the previous invocation has returned and its subprocess is  *)
(* gone, and the invocations made so far are exactly those that come       *)
(* before it in the order video left-as-reference, video                   *)
(* right-as-reference, audio left-as-reference, audio right-as-reference,  *)
(* loudness left, loudness right, each made once; the loudness invocations *)
(* are made on the fallback path only; and the row goes from Pending to    *)
(* VideoRunning to AudioRunning to Done, or to Done when it is cancelled.  *)
(***************************************************************************)
SlotOrder == << "v1", "v2", "a1", "a2", "l1", "l2" >>

SlotRank(slot) == CHOOSE k \in DOMAIN SlotOrder : SlotOrder[k] = slot

\* The stage of compare_row a row is in: 0 Pending (not yet past line 703),
\* 1 VideoRunning (lines 710-712), 2 AudioRunning (lines 714-719), 3 Done.
Stage(row) ==
    IF row.pc \in {"new", "queued", "begin"} THEN 0
    ELSE IF row.pc = "done" THEN 3
    ELSE IF row.pc \in {"v_enter", "after_video"} THEN 1
    ELSE IF row.pc \in {"call", "poll", "read", "wait", "post"}
            /\ row.slot \in {"v1", "v2"} THEN 1
    ELSE 2

C21_StrictOrder ==
    [][\A r \in Runs : \A i \in DOMAIN rows[r] :
         LET row == rows[r][i]
             next == rows'[r][i]
         IN /\ Stage(next) \in {Stage(row), Stage(row) + 1, 3}
            /\ (next.proc = "running" /\ row.proc # "running") =>
                  /\ row.proc = "none"
                  /\ row.pc = "call"
                  /\ \A s \in Slots :
                        row.calls[s] =
                          IF SlotRank(s) < SlotRank(next.slot) THEN 1 ELSE 0
                  /\ next.calls[next.slot] = 1
                  /\ next.slot \in {"l1", "l2"} => row.apath = "loudness"
      ]_vars

\* A row waits for its sixth subprocess, that of the loudness of the right
\* file.
C21_Witness ==
    \E x \in AllRows :
        /\ RowOf(x).proc = "running"
        /\ RowOf(x).slot = "l2"
        /\ RowOf(x).calls = [s \in Slots |-> 1]


(***************************************************************************)
(* C22.  Parser tier priority.  For the VMAF parser and for the audio PSNR *)
(* parser: when the text holds a token of the primary form ("VMAF score:   *)
(* <n>", "PSNR ch0: <n>") the parser returns the value of the first such   *)
(* token, whichever tokens of the secondary form ("VMAF ... <n>",          *)
(* "<n> dB") stand before or after it; the value of the last token of the  *)
(* secondary form is returned only when no token of the primary form is    *)
(* present; with neither the parser returns None.                          *)
(***************************************************************************)
PrimaryForm == IF parse.parser = "vmaf" THEN "VMAF score:" ELSE "PSNR ch0:"

SecondaryForm == IF parse.parser = "vmaf" THEN "VMAF" ELSE "dB"

Positions(form) ==
    { k \in DOMAIN parse.output : parse.output[k].form = form }

First(S) == CHOOSE k \in S : \A j \in S : k <= j

Latest(S) == CHOOSE k \in S : \A j \in S : j <= k

C22_TierPriority ==
    parse.pc = "returned" =>
        IF Positions(PrimaryForm) # {}
        THEN parse.score
               = float(parse.output[First(Positions(PrimaryForm))].num)
        ELSE IF Positions(SecondaryForm) # {}
        THEN parse.score
               = float(parse.output[Latest(Positions(SecondaryForm))].num)
        ELSE parse.score = None

\* The VMAF parser has returned the score of a "VMAF score:" token that
\* stands between two "VMAF" tokens with other numbers.
C22_Witness ==
    /\ parse.pc = "returned"
    /\ parse.parser = "vmaf"
    /\ Len(parse.output) = 3
    /\ parse.output[1].form = "VMAF"
    /\ parse.output[2].form = "VMAF score:"
    /\ parse.output[3].form = "VMAF"
    /\ parse.output[1].num # parse.output[2].num
    /\ parse.output[3].num # parse.output[2].num
    /\ parse.score = Some(95500)


(***************************************************************************)
(* C23.  Clean result set per run.  Every entry of the results mapping was *)
(* produced by a row of the run started last: start_comparison empties the *)
(* mapping, and no result of a row of an earlier run is inserted after a   *)
(* newer run has started.                                                  *)
(***************************************************************************)
C23_CleanResultSet ==
    \A i \in DOMAIN results : results[i].run = nruns


(***************************************************************************)
(* C24.  Results mapping write discipline.  While a run is active (running *)
(* is set) every change of the results mapping is the insertion, under a   *)
(* key the mapping does not hold yet, of the result that the row of this   *)
(* key has returned; the entries already present stay as they are.         *)
(***************************************************************************)
C24_WriteDiscipline ==
    [][(running /\ results' # results) =>
          \E i \in DOMAIN results' \ DOMAIN results :
              /\ DOMAIN results' = DOMAIN results \cup {i}
              /\ \A j \in DOMAIN results : results'[j] = results[j]
              /\ i \in Completed(nruns)
              /\ results'[i].res = Val(rows[nruns][i].ret)
      ]_vars


(***************************************************************************)
(* C25.  Cancellation is observed while waiting for output.  Once the stop *)
(* request has been made, every row that is waiting for a subprocess       *)
(* eventually returns from compare_row, whether or not the subprocess      *)
(* prints another line or exits on its own.                                *)
(***************************************************************************)
WaitingAtStop(r, i) ==
    IF i \in DOMAIN rows[r]
    THEN stop_event /\ rows[r][i].proc = "running"
    ELSE FALSE

RowReturned(r, i) ==
    IF i \in DOMAIN rows[r] THEN rows[r][i].pc = "done" ELSE FALSE

C25_CancelObservedWhileWaiting ==
    \A r \in Runs : \A i \in 1 .. MaxFiles :
        WaitingAtStop(r, i) ~> RowReturned(r, i)


(***************************************************************************)
(* C26.  Rows not yet started at cancellation do nothing.  Once the stop   *)
(* request has been made for a run, a row task of the run that has not yet *)
(* passed the first line of compare_row returns None at once when it is    *)
(* executed, with no subprocess spawned and no progress event put, and a   *)
(* row task of the run that has not been submitted is never submitted.     *)
(***************************************************************************)
C26_UnstartedRowsDoNothing ==
    [][\A r \in Runs : \A i \in DOMAIN rows[r] :
         hist[r].stopReq =>
            /\ (rows[r][i].pc = "begin" /\ rows'[r][i] # rows[r][i]) =>
                    rows'[r][i] = Finished(None)
            /\ rows[r][i].pc = "new" => rows'[r][i].pc = "new"
      ]_vars


(***************************************************************************)
(* C27.  Graceful-then-forced termination.  A monitoring loop that has     *)
(* observed the cancellation has requested the termination of its          *)
(* subprocess and is waiting for its exit; when the invocation has         *)
(* returned, the first signal it sent is the terminate request, a kill     *)
(* follows exactly when the subprocess had not exited within the grace     *)
(* period, and the invocation has returned None without parsing any        *)
(* output.                                                                 *)
(***************************************************************************)
C27_GracefulThenForced ==
    \A x \in AllRows :
        LET row == RowOf(x)
            signals == row.last.signals
        IN /\ row.pc = "wait" <=> row.proc = "terminating"
           /\ (row.pc = "post" /\ signals # << >>) =>
                 /\ row.last.kind = "cancelled"
                 /\ signals[1] = "terminate"
                 /\ IF row.last.exited THEN Len(signals) = 1
                    ELSE signals = << "terminate", "kill" >>
                 /\ LastValue(row) = None
                 /\ row.last.text = None
                 /\ row.proc = "none"
           /\ (row.pc = "post" /\ signals = << >>) =>
                 row.last.kind \in {"cancelled", "exited", "raised"}

\* A cancelled invocation has returned after killing a subprocess that did
\* not exit within the grace period.
C27_Witness ==
    \E x \in RowsAt("post") :
        /\ RowOf(x).last.signals = << "terminate", "kill" >>
        /\ ~RowOf(x).last.exited
        /\ LastValue(RowOf(x)) = None


(***************************************************************************)
(* C28.  Stage completion forces 100.  A row that has completed its video  *)
(* stage without cancellation (it is in its audio stage, or has returned a *)
(* result) has 100 as the last video progress event it put, whatever the   *)
(* live estimate reported before; a row that has completed its audio stage *)
(* (it has returned a result) has 100 as its last audio progress event.    *)
(***************************************************************************)
C28_StageCompletionForces100 ==
    \A x \in AllRows :
        LET row == RowOf(x) IN
        /\ Stage(row) = 2 => row.progress.video = Some(100)
        /\ (row.pc = "done" /\ row.ret # None) =>
              row.progress = [video |-> Some(100), audio |-> Some(100)]

\* A row has returned a result and the last event of each of its bars is
\* 100.
C28_Witness ==
    \E x \in RowsAt("done") :
        /\ RowOf(x).ret # None
        /\ RowOf(x).progress = [video |-> Some(100), audio |-> Some(100)]

(***************************************************************************)
(* C29.  Progress bounds and bands.  Every progress event carries a        *)
(* percent in 0..100; while the first video pass is monitored the last     *)
(* video event lies in 10..55, while the second is monitored in 55..100,   *)
(* for every frame counter and every total; audio events are 0, 25, 50,    *)
(* 75 or 100; and, the frame counter of a subprocess not going down, the   *)
(* percent of a bar of a row never goes down.                              *)
(***************************************************************************)
C29_ProgressBounds ==
    [][\A r \in Runs : \A i \in DOMAIN rows[r] :
         LET row == rows[r][i]
             next == rows'[r][i]
         IN /\ \A bar \in {"video", "audio"} :
                  next.progress[bar] # None =>
                    /\ Val(next.progress[bar]) \in 0 .. 100
                    /\ row.progress[bar] # None =>
                          Val(row.progress[bar]) <= Val(next.progress[bar])
            /\ next.progress.audio # None =>
                  Val(next.progress.audio) \in {0, 25, 50, 75, 100}
            /\ (next.pc \in {"poll", "read"} /\ next.slot = "v1") =>
                  Val(next.progress.video) \in 10 .. 55
            /\ (next.pc \in {"poll", "read"} /\ next.slot = "v2") =>
                  Val(next.progress.video) \in 55 .. 100
      ]_vars

\* The second video pass has reported a live estimate strictly inside its
\* band, from a frame counter below the total.
C29_Witness ==
    \E x \in RowsAt("poll") :
        /\ RowOf(x).slot = "v2"
        /\ RowOf(x).frame > 0
        /\ RowOf(x).frame < RowOf(x).total_frames
        /\ Val(RowOf(x).progress.video) > 55
        /\ Val(RowOf(x).progress.video) < 100

(***************************************************************************)
(* C30.  Frame count is queried once per row.  During the pipeline of a    *)
(* row get_total_frames is called at most once, and the total used by the  *)
(* progress estimate of a running video invocation is at least 1.          *)
(***************************************************************************)
C30_FrameCountOnce ==
    \A x \in AllRows :
        LET row == RowOf(x) IN
        /\ row.probes <= 1
        /\ (row.pc \in {"poll", "read", "wait"} /\ row.slot \in {"v1", "v2"})
              => row.total_frames >= 1


(***************************************************************************)
(* C31.  Parser completeness over tiers.  A parser returns None only if    *)
(* every tier fails to yield a score: a tier whose pattern takes           *)
(* characters that are no number has failed and the next tier is still     *)
(* tried, so the value returned is that of the first tier that yields a    *)
(* number.                                                                 *)
(***************************************************************************)
\* What each tier of the parser at work yields on its own: the first match
\* of the primary pattern, then the last match of the secondary pattern.
TierValues ==
    LET first == Matches(parse.output, {PrimaryForm})
        all == Matches(parse.output, {PrimaryForm, SecondaryForm})
    IN << IF first # << >> THEN float(first[1]) ELSE None,
          IF all # << >> THEN float(all[Len(all)]) ELSE None >>

C31_TierCompleteness ==
    parse.pc = "returned" =>
        parse.score = IF TierValues[1] # None THEN TierValues[1]
                      ELSE TierValues[2]


(***************************************************************************)
(* C32.  Every failure is logged.  An invocation of any slot -- video,     *)
(* audio PSNR or loudness -- whose subprocess could not be spawned, exited *)
(* with a non-zero code or printed a text no pattern matches has put a     *)
(* WARNING or ERROR entry on log_queue.                                    *)
(***************************************************************************)
\* The invocation that has just returned to the row has failed.
Failed(row) ==
    \/ row.last.kind = "raised"
    \/ /\ row.last.kind = "exited"
       /\ row.last.rc # 0 \/ row.last.text = None

C32_EveryFailureLogged ==
    \A x \in RowsAt("post") :
        Failed(RowOf(x)) => RowOf(x).last.level \in {"WARNING", "ERROR"}

(***************************************************************************)
(* C33.  Cancellation is not an error.  An invocation that returns because *)
(* it has seen stop_event set, before spawning its subprocess or after     *)
(* terminating it, has put no ERROR entry on log_queue.                    *)
(***************************************************************************)
C33_CancelLogsNoError ==
    \A x \in RowsAt("post") :
        RowOf(x).last.kind = "cancelled" =>
            /\ RowOf(x).last.level # "ERROR"
            /\ RowOf(x).last.error = None

\* An invocation has terminated its subprocess, which exited within the
\* grace period, and has returned without an entry.
C33_Witness ==
    \E x \in RowsAt("post") :
        /\ RowOf(x).last.kind = "cancelled"
        /\ RowOf(x).last.signals = << "terminate" >>
        /\ RowOf(x).last.level = "-"


(***************************************************************************)
(* C34.  Both video directions unavailable.  When neither directional      *)
(* video invocation gave a score and stop_event is not set, the row goes   *)
(* on: the video stage ends with a tie and the scores 0 and 0, the audio   *)
(* stage runs with that video result untouched, and the dict the row       *)
(* returns carries it.                                                     *)
(***************************************************************************)
\* The positions of a row between the end of its video stage and the end
\* of its audio stage.
AudioStage ==
    {"a_enter", "call", "poll", "read", "wait", "post", "f_enter",
     "after_audio"}

C34_BothVideoUnavailable ==
    [][\A r \in Runs : \A i \in DOMAIN rows[r] :
         LET row == rows[r][i]
             next == rows'[r][i]
         IN /\ (/\ row.pc = "post" /\ row.slot = "v2"
                /\ row.s1 = None /\ row.s2 = None
                /\ ~stop_event /\ next # row) =>
                  /\ next.pc = "after_video"
                  /\ next.vres = TieZero
            /\ (row.pc = "after_video" /\ ~stop_event /\ next # row) =>
                  /\ next.pc = "a_enter"
                  /\ next.vres = row.vres
            /\ (/\ row.pc \in AudioStage
                /\ row.slot \notin {"v1", "v2"}
                /\ next.pc # "done") => next.vres = row.vres
            /\ (row.pc = "after_audio" /\ ~stop_event /\ next # row) =>
                  /\ next.pc = "done"
                  /\ next.ret # None
                  /\ Val(next.ret).video_winner = row.vres.winner
                  /\ Val(next.ret).video_score_left = row.vres.left_score
                  /\ Val(next.ret).video_score_right = row.vres.right_score
      ]_vars

\* Both video invocations of a row have run and neither gave a score; the
\* row is about to start its audio stage with a tie and the scores 0 and 0.
C34_Witness ==
    \E x \in RowsAt("after_video") :
        /\ RowOf(x).s1 = None
        /\ RowOf(x).s2 = None
        /\ RowOf(x).vres = TieZero
        /\ RowOf(x).calls["v1"] = 1
        /\ RowOf(x).calls["v2"] = 1
        /\ ~stop_event


(***************************************************************************)
(* C35.  Terminal status comes last.  Once the scheduler of a run has put  *)
(* the terminal entry of the run and reset running, every task it          *)
(* submitted has returned: no worker is inside compare_row for the run and *)
(* no subprocess of the run is alive, whether the run was stopped or not.  *)
(***************************************************************************)
C35_TerminalStatusLast ==
    \A r \in Runs :
        (hist[r].terminal # "none" \/ sched[r].pc = "done") =>
            /\ \A i \in Submitted(r) : rows[r][i].pc = "done"
            /\ \A i \in DOMAIN rows[r] :
                   /\ rows[r][i].pc \in {"new", "done"}
                   /\ rows[r][i].proc = "none"

\* A stopped run has ended after two submitted tasks, both returned, one of
\* them with None.
C35_Witness ==
    \E r \in Runs :
        /\ hist[r].terminal = "stopped"
        /\ Cardinality(Submitted(r)) = 2
        /\ \E i \in Submitted(r) : rows[r][i].ret = None
        /\ \A i \in Submitted(r) : rows[r][i].pc = "done"


(***************************************************************************)
(* C36.  The displayed classification agrees with the stored winner.  For  *)
(* every stored result the difference label update_score_display writes    *)
(* for the video scores and the one it writes for the audio scores show a  *)
(* tie exactly when the stored winner of that channel is tie, and name the *)
(* side of the stored winner otherwise.                                    *)
(***************************************************************************)
\* Lines 516-519 and 545-548: the text of a difference label, "Tie" below
\* the threshold and the side with the higher score otherwise.
DiffText(left_score, right_score, threshold) ==
    IF Abs(left_score - right_score) < threshold THEN "tie"
    ELSE IF left_score > right_score THEN "left"
    ELSE IF right_score > left_score THEN "right"
    ELSE "tie"

\* update_score_display, lines 500-572, as called at lines 674-681 with the
\* scores of the result and the metric selected at that moment.
update_score_display(result, metric) ==
    [viddiff |-> DiffText(result.video_score_left, result.video_score_right,
                          IF metric = "VMAF" THEN vmaf_win_threshold
                          ELSE ssim_win_threshold),
     audiodiff |-> DiffText(result.audio_score_left,
                            result.audio_score_right, psnr_win_threshold)]

C36_DisplayAgreesWithWinner ==
    \A i \in DOMAIN results :
        LET labels == update_score_display(results[i].res, results[i].display)
        IN /\ labels.viddiff = results[i].res.video_winner
           /\ labels.audiodiff = results[i].res.audio_winner


(***************************************************************************)
(* C37.  Winner decisions are symmetric.  The result of the video          *)
(* decision, of the audio PSNR decision and of the loudness decision is    *)
(* the one computed from the two scores the stage holds, and the decision  *)
(* on the same two scores exchanged is that result with left and right     *)
(* exchanged: tie stays tie and the two reported scores change places.     *)
(***************************************************************************)
Exchanged(result) ==
    [winner |-> IF result.winner = "left" THEN "right"
                ELSE IF result.winner = "right" THEN "left"
                ELSE result.winner,
     left_score |-> result.right_score,
     right_score |-> result.left_score]

C37_WinnerSymmetry ==
    /\ \A x \in RowsAt("after_video") :
          LET row == RowOf(x) IN
          /\ row.vres = determine_video_winner(row.s1, row.s2, row.metric)
          /\ determine_video_winner(row.s2, row.s1, row.metric)
                = Exchanged(row.vres)
    /\ \A x \in RowsAt("after_audio") :
          LET row == RowOf(x) IN
          /\ row.apath = "psnr" =>
                /\ row.ares = psnr_decision(row.s1, row.s2)
                /\ psnr_decision(row.s2, row.s1) = Exchanged(row.ares)
          /\ row.apath = "loudness" =>
                /\ row.ares = loudness_decision(row.s1, row.s2)
                /\ loudness_decision(row.s2, row.s1) = Exchanged(row.ares)

\* The fallback has decided for the right file on two loudness values more
\* than one LUFS apart.
C37_Witness ==
    \E x \in RowsAt("after_audio") :
        /\ RowOf(x).apath = "loudness"
        /\ RowOf(x).ares.winner = "right"
        /\ RowOf(x).s1 # None /\ RowOf(x).s2 # None
        /\ Val(RowOf(x).s2) - Val(RowOf(x).s1) > LoudnessTieBand


(***************************************************************************)
(* C38.  No subprocess outlives its row.  A row holds a subprocess only    *)
(* while it is inside the monitoring loop of the invocation that spawned   *)
(* it, it leaves that loop only when the subprocess has exited or when it  *)
(* has sent the terminate request and, the subprocess being still alive    *)
(* after the grace period, the kill; so a row that returns, with a result  *)
(* or with None, holds no subprocess.                                      *)
(***************************************************************************)
C38_NoSubprocessOutlivesRow ==
    [][\A r \in Runs : \A i \in DOMAIN rows[r] :
         LET row == rows[r][i]
             next == rows'[r][i]
             signals == next.last.signals
         IN /\ row.proc # "none" => row.pc \in {"poll", "read", "wait"}
            /\ (next.pc = "done" /\ row.pc # "done") => row.proc = "none"
            /\ (row.proc # "none" /\ next.proc = "none") =>
                  /\ next.pc = "post"
                  /\ IF row.proc = "running"
                     THEN /\ next.last.kind = "exited"
                          /\ signals = << >>
                     ELSE /\ next.last.kind = "cancelled"
                          /\ signals # << >>
                          /\ signals[1] = "terminate"
                          /\ \/ next.last.exited
                             \/ signals = << "terminate", "kill" >>
      ]_vars

\* A row that had spawned subprocesses has returned None after a stop.
C38_Witness ==
    \E x \in RowsAt("done") :
        /\ RowOf(x).ret = None
        /\ RowOf(x).proc = "none"
        /\ hist[x[1]].used # {}
        /\ stop_event

=============================================================================
